---- MODULE Spec2Model ----
(***************************************************************************)
(* Spatial Feature Service (talkinglands): the request handlers of the     *)
(* points, polygons and geo routers over a transactional store with        *)
(* read-committed isolation, and the coordinate validators of schemas.py.  *)
(*                                                                         *)
(* Every request runs on its own session (database.get_db).  A handler     *)
(* that issues one store write is one action; a handler that reads and     *)
(* then writes (update, delete) or flushes several rows (create_batch) is  *)
(* one action per store call, so that other requests interleave.           *)
(***************************************************************************)
EXTENDS Integers, Sequences, FiniteSets, TLC

\* ---------------------------------------------------------------- bounds
MaxId == 2          \* values the id sequence of a table can hand out
NumSessions == 1    \* requests that can be in flight at once
MaxWriters == 2     \* update requests in flight at once (SpecConc)
MaxBatch == 2       \* entities in one create_batch request
MaxRing == 4        \* coordinate pairs in a ring given to a validator
MaxClock == 2       \* instants of the store's clock after the first

\* ------------------------------------------------------ program constants
LonMin == -180
LonMax == 180
LatMin == -90
LatMax == 90
MinRing == 3
HTTP_OK == 200
HTTP_CREATED == 201
HTTP_NO_CONTENT == 204
HTTP_NOT_FOUND == 404
HTTP_METHOD_NOT_ALLOWED == 405
HTTP_UNPROCESSABLE == 422
HTTP_ERROR == 500

Kinds == {"point", "polygon"}
Ids == 1..MaxId
Sessions == 1..NumSessions

\* Optional[T]: None is the empty sequence, a value v is <<v>>.
Nothing == <<>>
Some(v) == <<v>>
IsNone(o) == Len(o) = 0
Val(o) == o[1]

\* ------------------------------------------------------------ schemas.py
\* A validator's result: the value handed to the handler, or a ValueError.
Valid(v) == [ok |-> TRUE, v |-> v]
Invalid == [ok |-> FALSE, v |-> <<>>]

\* a validator that forgets the latitude check
PointCreate_validate_no_latitude(v) ==
    IF Len(v) # 2 THEN Invalid
    ELSE IF ~(LonMin <= v[1] /\ v[1] <= LonMax) THEN Invalid
    ELSE Valid(v)

\* PointCreate.validate_coordinates (v is a list of floats)
PointCreate_validate_coordinates(v) ==
    IF Len(v) # 2 THEN Invalid
    ELSE IF ~(LonMin <= v[1] /\ v[1] <= LonMax) THEN Invalid
    ELSE IF ~(LatMin <= v[2] /\ v[2] <= LatMax) THEN Invalid
    ELSE Valid(v)

\* PointUpdate.validate_coordinates (v is Optional)
PointUpdate_validate_coordinates(o) ==
    IF IsNone(o) THEN Valid(o)
    ELSE IF Len(Val(o)) # 2 THEN Invalid
    ELSE IF ~(LonMin <= Val(o)[1] /\ Val(o)[1] <= LonMax) THEN Invalid
    ELSE IF ~(LatMin <= Val(o)[2] /\ Val(o)[2] <= LatMax) THEN Invalid
    ELSE Valid(o)

\* the loop over the ring's coordinates: does any of them raise
RingCoordError(v) ==
    \E i \in 1..Len(v) :
        \/ Len(v[i]) # 2
        \/ ~(LonMin <= v[i][1] /\ v[i][1] <= LonMax)
        \/ ~(LatMin <= v[i][2] /\ v[i][2] <= LatMax)

\* if v[0] != v[-1]: v.append(v[0])
CloseRing(v) == IF v[1] # v[Len(v)] THEN Append(v, v[1]) ELSE v

\* PolygonCreate.validate_coordinates
PolygonCreate_validate_coordinates(v) ==
    IF Len(v) < MinRing THEN Invalid
    ELSE IF RingCoordError(v) THEN Invalid
    ELSE Valid(CloseRing(v))

\* an update validator that leaves an open ring open
PolygonUpdate_validate_no_closure(o) ==
    IF IsNone(o) THEN Valid(o)
    ELSE IF Len(Val(o)) < MinRing THEN Invalid
    ELSE IF RingCoordError(Val(o)) THEN Invalid
    ELSE Valid(o)

\* PolygonUpdate.validate_coordinates (v is Optional)
PolygonUpdate_validate_coordinates(o) ==
    IF IsNone(o) THEN Valid(o)
    ELSE IF Len(Val(o)) < MinRing THEN Invalid
    ELSE IF RingCoordError(Val(o)) THEN Invalid
    ELSE Valid(Some(CloseRing(Val(o))))

ValidateCreate(kind, coords) ==
    IF kind = "point" THEN PointCreate_validate_coordinates(coords)
    ELSE PolygonCreate_validate_coordinates(coords)

ValidateUpdate(kind, ocoords) ==
    IF kind = "point" THEN PointUpdate_validate_coordinates(ocoords)
    ELSE PolygonUpdate_validate_coordinates(ocoords)

\* ------------------------------------------------------------- the store
\* A table row (models.SpatialPoint / models.SpatialPolygon); the id is the
\* key of the table.  geom is what the WKT literal built by the handler
\* denotes: the pair of a POINT, the ring of a POLYGON.
Row(name, description, attributes, geom) ==
    [name |-> name, description |-> description,
     attributes |-> attributes, geom |-> geom]

\* f"POINT({lon} {lat})" / f'POLYGON(({", ".join(coord_strings)}))'
Wkt(kind, coords) ==
    IF kind = "point" THEN <<coords[1], coords[2]>>
    ELSE [i \in 1..Len(coords) |-> <<coords[i][1], coords[i][2]>>]

VARIABLES
    store,      \* committed rows: store[kind][id] is Nothing or Some(row)
    nextId,     \* the id sequence of each table
    sess,       \* the request each session is in the middle of
    resp,       \* the response sent last
    deleted,    \* history: <<kind, id>> of every successful delete
    table,      \* the table the requests of this run address
    codec,      \* a validator applied to a ring (specification SpecCodec)
    clock,      \* the store's time
    stamp,      \* created_at and updated_at of each stored row
    views       \* history: per session in find_points_within_polygon, the
                \* answers the committed stores since its lookup give

vars == <<store, nextId, sess, resp, deleted, table, codec, clock, stamp, views>>

Idle ==
    [op |-> "idle", kind |-> "none", id |-> 0, partial |-> <<>>,
     changes |-> <<>>, items |-> <<>>, todo |-> <<>>, pending |-> <<>>,
     began |-> 0, loaded |-> <<>>]

NoResp ==
    [op |-> "none", kind |-> "none", id |-> 0, status |-> 0, ids |-> {},
     n |-> 0, changed |-> FALSE, cls |-> "none", fault |-> FALSE,
     queried |-> FALSE, raw |-> "",
     skip |-> <<>>, limit |-> <<>>, name |-> <<>>, supplied |-> {},
     items |-> <<>>, features |-> <<>>, rollback |-> FALSE,
     router |-> "", method |-> "", path |-> <<>>, handler |-> "",
     operation |-> ""]

NoCodec == [op |-> "none", in |-> <<>>, out |-> Invalid, wkt |-> <<>>]

Visible(kind) == {i \in Ids : ~IsNone(store[kind][i])}

\* ----------------------------------------------------- session (database.py)
\* Rows a session has flushed live in its transaction until commit; other
\* sessions do not see them (read committed).  txn is a sequence of
\* <<id, row>>.
\* a flush on a session that commits every statement
Flush_autocommit(st, txn, kind, id, row) ==
    [store |-> [st EXCEPT ![kind][id] = Some(row)],
     txn |-> Append(txn, <<id, row>>)]

\* a flush that puts the new row before the ones flushed earlier
Flush_prepend(st, txn, kind, id, row) ==
    [store |-> st, txn |-> <<<<id, row>>>> \o txn]

Flush(st, txn, kind, id, row) ==
    [store |-> st, txn |-> Append(txn, <<id, row>>)]

Commit(st, txn, kind) ==
    [st EXCEPT ![kind] =
        [i \in Ids |->
            IF i \in {txn[j][1] : j \in 1..Len(txn)}
            THEN Some(txn[CHOOSE j \in 1..Len(txn) : txn[j][1] = i][2])
            ELSE st[kind][i]]]

\* a rollback that leaves the flushed rows in the table
Rollback_keeps_flushed(st, txn, kind) ==
    [st EXCEPT ![kind] =
        [i \in Ids |->
            IF i \in {txn[j][1] : j \in 1..Len(txn)}
            THEN Some(txn[CHOOSE j \in 1..Len(txn) : txn[j][1] = i][2])
            ELSE st[kind][i]]]

Rollback(st, txn, kind) == st

TxnIds(txn) == {txn[j][1] : j \in 1..Len(txn)}

\* ------------------------------------------- the store's spatial predicates
\* ST_Within, ST_Intersects and ST_Contains are computed by the store.  Here
\* they are computed exactly for points and simple closed rings with integer
\* pairs: a point is within a polygon when it lies in its interior (a point
\* on the boundary is not), two polygons intersect when they share a point.
Cross(a, b, c) ==
    (b[1] - a[1]) * (c[2] - a[2]) - (b[2] - a[2]) * (c[1] - a[1])

Sign(n) == IF n > 0 THEN 1 ELSE IF n < 0 THEN -1 ELSE 0

Lo(x, y) == IF x <= y THEN x ELSE y
Hi(x, y) == IF x <= y THEN y ELSE x

OnSegment(p, a, b) ==
    /\ Cross(a, b, p) = 0
    /\ Lo(a[1], b[1]) <= p[1] /\ p[1] <= Hi(a[1], b[1])
    /\ Lo(a[2], b[2]) <= p[2] /\ p[2] <= Hi(a[2], b[2])

SegmentsMeet(a, b, c, d) ==
    \/ /\ Sign(Cross(a, b, c)) # Sign(Cross(a, b, d))
       /\ Sign(Cross(c, d, a)) # Sign(Cross(c, d, b))
    \/ OnSegment(c, a, b) \/ OnSegment(d, a, b)
    \/ OnSegment(a, c, d) \/ OnSegment(b, c, d)

\* the edges of a closed ring, by the index of their first pair
EdgeIndex(ring) == 1..(Len(ring) - 1)

OnBoundary(p, ring) ==
    \E i \in EdgeIndex(ring) : OnSegment(p, ring[i], ring[i + 1])

\* the edges that the ray from p towards +x crosses
Crossings(p, ring) ==
    {i \in EdgeIndex(ring) :
        LET a == ring[i]
            b == ring[i + 1]
            dy == b[2] - a[2]
            lhs == (p[1] - a[1]) * dy
            rhs == (p[2] - a[2]) * (b[1] - a[1])
        IN /\ (a[2] > p[2]) # (b[2] > p[2])
           /\ IF dy > 0 THEN lhs < rhs ELSE lhs > rhs}

Interior(p, ring) ==
    ~OnBoundary(p, ring) /\ Cardinality(Crossings(p, ring)) % 2 = 1

ST_Within(point, ring) == Interior(point, ring)

ST_Contains(ring, point) == Interior(point, ring)

ST_Intersects(r1, r2) ==
    \/ \E i \in EdgeIndex(r1) : \E j \in EdgeIndex(r2) :
            SegmentsMeet(r1[i], r1[i + 1], r2[j], r2[j + 1])
    \/ Interior(r1[1], r2)
    \/ Interior(r2[1], r1)

\* the least number of pairs the store takes for the ring of a POLYGON
MinWktRing == 4

\* ------------------------------------------------------- request inputs
A == <<0, 0>>
B == <<LonMax, LatMax>>
C == <<LonMin, LatMin>>

\* coordinates a client may send for a point: in range (the boundary
\* values), out of range on each side, and of arity 1 and 3
PointCoords ==
    {B, C, <<LonMax + 1, 0>>, <<LonMin - 1, 0>>, <<0, LatMax + 1>>,
     <<0, LatMin - 1>>, <<0>>, <<0, 0, 0>>}

\* rings a client may send: open, closed, too short, with a pair out of
\* range, with a pair of arity 1
RingCoords ==
    {<<A, B, C>>, <<A, C, B, A>>, <<A, B>>, <<A, B, <<LonMax + 1, 0>>>>,
     <<A, <<0, LatMin - 1>>, C>>, <<A, <<0>>, C, A>>}

CoordInputs(kind) == IF kind = "point" THEN PointCoords ELSE RingCoords

\* PointCreate / PolygonCreate bodies
Body(coords) ==
    [name |-> "n1", description |-> Some("d1"), attributes |-> Some("a1"),
     coordinates |-> coords]

Bodies(kind) == {Body(c) : c \in CoordInputs(kind)}

NamedBody(name, coords) ==
    [name |-> name, description |-> Nothing, attributes |-> Nothing,
     coordinates |-> coords]

\* the entities of a batch: in range, or with a pair out of range
BatchBodies(kind) ==
    IF kind = "point" THEN {Body(B), Body(<<LonMax + 20, 0>>)}
    ELSE {Body(<<A, B, C>>), Body(<<A, B, <<LonMax + 20, 0>>>>)}

\* PointUpdate / PolygonUpdate bodies: every field is Optional
Partial(name, description, attributes, coordinates) ==
    [name |-> name, description |-> description,
     attributes |-> attributes, coordinates |-> coordinates]

Partials(kind) ==
    {Partial(Nothing, Nothing, Nothing, Nothing),
     Partial(Some("n2"), Nothing, Nothing, Nothing),
     Partial(Nothing, Some("d2"), Some("a2"), Nothing)}
    \cup {Partial(Nothing, Nothing, Nothing, Some(c)) : c \in CoordInputs(kind)}

\* What the request says about its coordinates, in the words of the data
\* model: "badpair" when some pair has arity other than 2 or lies outside
\* [-180,180] x [-90,90], "short" when a ring has fewer than 3 pairs.
PairInRange(c) ==
    /\ Len(c) = 2
    /\ c[1] >= LonMin /\ c[1] <= LonMax
    /\ c[2] >= LatMin /\ c[2] <= LatMax

CoordClass(kind, coords) ==
    IF kind = "point"
    THEN IF PairInRange(coords) THEN "ok" ELSE "badpair"
    ELSE IF \E i \in 1..Len(coords) : ~PairInRange(coords[i]) THEN "badpair"
         ELSE IF Len(coords) < MinRing THEN "short"
         ELSE "ok"

OptCoordClass(kind, o) == IF IsNone(o) THEN "ok" ELSE CoordClass(kind, Val(o))

Init ==
    /\ store = [k \in Kinds |-> [i \in Ids |-> Nothing]]
    /\ nextId = [k \in Kinds |-> 1]
    /\ sess = [s \in Sessions |-> Idle]
    /\ resp = NoResp
    /\ deleted = {}
    /\ clock = 0
    /\ stamp = [k \in Kinds |-> [i \in Ids |-> Nothing]]
    /\ views = [s \in Sessions |-> {}]
    /\ table \in Kinds
    /\ codec = NoCodec

\* the answer find_points_within_polygon(polygon_id) has in store st: none
\* when the polygon is not stored
AnswerIn(st, polygon_id) ==
    IF IsNone(st["polygon"][polygon_id]) THEN {}
    ELSE {{i \in Ids :
              /\ ~IsNone(st["point"][i])
              /\ ST_Within(Val(st["point"][i]).geom,
                           Val(st["polygon"][polygon_id]).geom)}}

\* created_at and updated_at are now() of the store, the time at which the
\* transaction of the statement began (t): both on INSERT (server_default),
\* updated_at on an UPDATE of the row (onupdate); a DELETE removes the row.
Stamp(t, updated) ==
    [k \in Kinds |-> [i \in Ids |->
        IF IsNone(store'[k][i]) THEN Nothing
        ELSE IF IsNone(store[k][i])
        THEN Some([created_at |-> t, updated_at |-> t])
        ELSE IF <<k, i>> \in updated
        THEN Some([Val(stamp[k][i]) EXCEPT !.updated_at = t])
        ELSE stamp[k][i]]]

\* the response of a handler, with whether the handler changed a committed
\* row; t is the time its transaction began and updated the rows it has
\* sent an UPDATE for
RespondAt(r, t, updated) ==
    /\ resp' = [r EXCEPT !.changed = (store' # store)]
    /\ stamp' = Stamp(t, updated)
    /\ views' = [s \in DOMAIN views |->
          IF sess[s].op = "within" /\ store' # store
          THEN views[s] \cup AnswerIn(store', sess[s].id)
          ELSE views[s]]

Respond(r) == RespondAt(r, clock, {})

\* time passes
tick ==
    /\ clock < MaxClock
    /\ clock' = clock + 1
    /\ UNCHANGED <<store, nextId, sess, resp, deleted, table, codec, stamp, views>>

\* ------------------------------------------------------------- create
\* create_point / create_polygon.  The steps that can raise, in order:
\* building the row and db.add ("add"), db.commit ("commit": the INSERT has
\* drawn an id, the transaction is rolled back), db.refresh ("refresh") and
\* to_geojson ("serialize"); every one lands in `except Exception`, which
\* calls db.rollback and answers 500.
CreateFaults == {"none", "add", "commit", "refresh", "serialize"}

CreateStore(st, kind, id, row, fault) ==
    LET fl == Flush(st, <<>>, kind, id, row) IN
    CASE fault = "add" -> Rollback(st, <<>>, kind)
      [] fault = "commit" -> Rollback(fl.store, fl.txn, kind)
      [] fault \in {"refresh", "serialize"} ->
            Rollback(Commit(fl.store, fl.txn, kind), <<>>, kind)
      [] OTHER -> Commit(fl.store, fl.txn, kind)

\* a create whose id goes back to the sequence when the commit fails
create_sequence_rolls_back(kind, body, fault) ==
    LET val == ValidateCreate(kind, body.coordinates)
        r0 == [NoResp EXCEPT !.op = "create", !.kind = kind, !.n = 1,
                             !.cls = CoordClass(kind, body.coordinates)]
        id == nextId[kind]
    IN
    /\ UNCHANGED <<sess, deleted, table, codec, clock>>
    /\ IF ~val.ok
       THEN /\ fault = "none"
            /\ UNCHANGED <<store, nextId>>
            /\ Respond([r0 EXCEPT !.status = HTTP_UNPROCESSABLE])
       ELSE /\ id <= MaxId
            /\ store' = CreateStore(store, kind, id,
                            Row(body.name, body.description, body.attributes,
                                Wkt(kind, val.v)), fault)
            /\ nextId' = IF fault \in {"add", "commit"} THEN nextId
                         ELSE [nextId EXCEPT ![kind] = id + 1]
            /\ Respond([r0 EXCEPT
                  !.status = IF fault = "none" THEN HTTP_CREATED ELSE HTTP_ERROR,
                  !.id = IF fault = "add" THEN 0 ELSE id,
                  !.ids = IF fault = "add" THEN {} ELSE {id},
                  !.fault = (fault # "none"),
                  !.rollback = (fault # "none")])

create(kind, body, fault) ==
    LET val == ValidateCreate(kind, body.coordinates)
        r0 == [NoResp EXCEPT !.op = "create", !.kind = kind, !.n = 1,
                             !.cls = CoordClass(kind, body.coordinates)]
        id == nextId[kind]
    IN
    /\ UNCHANGED <<sess, deleted, table, codec, clock>>
    /\ IF ~val.ok
       THEN /\ fault = "none"
            /\ UNCHANGED <<store, nextId>>
            /\ Respond([r0 EXCEPT !.status = HTTP_UNPROCESSABLE])
       ELSE /\ id <= MaxId
            /\ store' = CreateStore(store, kind, id,
                            Row(body.name, body.description, body.attributes,
                                Wkt(kind, val.v)), fault)
            /\ nextId' = IF fault = "add" THEN nextId
                         ELSE [nextId EXCEPT ![kind] = id + 1]
            /\ Respond([r0 EXCEPT
                  !.status = IF fault = "none" THEN HTTP_CREATED ELSE HTTP_ERROR,
                  !.id = IF fault = "add" THEN 0 ELSE id,
                  !.ids = IF fault = "add" THEN {} ELSE {id},
                  !.fault = (fault # "none"),
                  !.rollback = (fault # "none")])

\* ------------------------------------------------------- create_batch
\* The body is validated as a whole before the handler runs (422).
BatchItems(kind) ==
    UNION {[1..n -> BatchBodies(kind)] : n \in 1..MaxBatch}

BatchClass(kind, items) ==
    IF \E i \in 1..Len(items) : CoordClass(kind, items[i].coordinates) = "badpair"
    THEN "badpair"
    ELSE IF \E i \in 1..Len(items) : CoordClass(kind, items[i].coordinates) = "short"
    THEN "short" ELSE "ok"

create_batch_rejected(kind, items) ==
    /\ \E i \in 1..Len(items) : ~ValidateCreate(kind, items[i].coordinates).ok
    /\ UNCHANGED <<store, nextId, sess, deleted, table, codec, clock>>
    /\ Respond([NoResp EXCEPT !.op = "batch", !.kind = kind, !.n = Len(items),
          !.cls = BatchClass(kind, items), !.status = HTTP_UNPROCESSABLE])

create_batch_begin(s, kind, items) ==
    /\ \A i \in 1..Len(items) : ValidateCreate(kind, items[i].coordinates).ok
    /\ sess[s].op = "idle"
    /\ UNCHANGED <<store, nextId, deleted, table, codec, clock, resp, views, stamp>>
    /\ sess' = [sess EXCEPT ![s] =
          [Idle EXCEPT !.op = "batch", !.kind = kind, !.items = items,
             !.todo = [i \in 1..Len(items) |->
                Row(items[i].name, items[i].description, items[i].attributes,
                    Wkt(kind, ValidateCreate(kind, items[i].coordinates).v))]]]

\* one turn of the loop: db.add, db.flush ("flush" when it raises),
\* to_geojson ("serialize" when it raises, the row being flushed already)
BatchFaults == {"none", "flush", "serialize"}

create_batch_step(s, fault) ==
    LET kind == sess[s].kind
        id == nextId[kind]
        fl == Flush(store, sess[s].pending, kind, id, Head(sess[s].todo))
        txn == IF fault = "flush" THEN sess[s].pending ELSE fl.txn
        st == IF fault = "flush" THEN store ELSE fl.store
    IN
    /\ sess[s].op = "batch"
    /\ sess[s].todo # <<>>
    /\ id <= MaxId
    /\ nextId' = IF fault = "flush" THEN nextId
                 ELSE [nextId EXCEPT ![kind] = id + 1]
    /\ UNCHANGED <<deleted, table, codec, clock>>
    /\ IF fault = "none"
       THEN /\ store' = st
            /\ sess' = [sess EXCEPT ![s].todo = Tail(@), ![s].pending = txn,
                  ![s].began = IF sess[s].pending = <<>> THEN clock ELSE @]
            /\ UNCHANGED <<resp, views, stamp>>
       ELSE /\ store' = Rollback(st, txn, kind)
            /\ sess' = [sess EXCEPT ![s] = Idle]
            /\ Respond([NoResp EXCEPT !.op = "batch", !.kind = kind,
                  !.n = Len(sess[s].pending) + Len(sess[s].todo),
                  !.cls = "ok", !.status = HTTP_ERROR,
                  !.ids = TxnIds(txn), !.fault = (fault # "none"),
                  !.rollback = TRUE])

create_batch_commit(s, fault) ==
    LET kind == sess[s].kind
        txn == sess[s].pending
    IN
    /\ sess[s].op = "batch"
    /\ sess[s].todo = <<>>
    /\ fault \in {"none", "commit"}
    /\ UNCHANGED <<nextId, deleted, table, codec, clock>>
    /\ store' = IF fault = "none" THEN Commit(store, txn, kind)
                ELSE Rollback(store, txn, kind)
    /\ sess' = [sess EXCEPT ![s] = Idle]
    /\ RespondAt([NoResp EXCEPT !.op = "batch", !.kind = kind,
          !.n = Len(txn), !.cls = "ok",
          !.status = IF fault = "none" THEN HTTP_CREATED ELSE HTTP_ERROR,
          !.ids = TxnIds(txn), !.fault = (fault # "none"),
          !.rollback = (fault # "none"),
          !.items = IF fault = "none" THEN sess[s].items ELSE <<>>,
          !.features = IF fault = "none" THEN txn ELSE <<>>],
          sess[s].began, {})

\* ---------------------------------------------------------------- get
\* points.py get_point: the 404 raised inside try is re-raised by
\* `except HTTPException`; any other exception becomes 500.
get_point_status(found, fault) ==
    IF fault THEN HTTP_ERROR ELSE IF found THEN HTTP_OK ELSE HTTP_NOT_FOUND

\* polygons.py get_polygon: there is no `except HTTPException` clause, so
\* the HTTPException(404) raised inside try is caught by `except Exception`
\* and answered as 500.
get_polygon_status(found, fault) ==
    IF fault THEN HTTP_ERROR ELSE IF found THEN HTTP_OK ELSE HTTP_ERROR

\* a get that removes the row it has read
get_removes(kind, id, fault) ==
    LET found == ~IsNone(store[kind][id]) IN
    /\ UNCHANGED <<nextId, sess, deleted, table, codec, clock>>
    /\ store' = [store EXCEPT ![kind][id] = Nothing]
    /\ Respond([NoResp EXCEPT !.op = "get", !.kind = kind, !.id = id,
          !.status = IF kind = "point" THEN get_point_status(found, fault)
                     ELSE get_polygon_status(found, fault),
          !.ids = IF found /\ ~fault THEN {id} ELSE {},
          !.fault = fault])

get(kind, id, fault) ==
    LET found == ~IsNone(store[kind][id]) IN
    /\ UNCHANGED <<store, nextId, sess, deleted, table, codec, clock>>
    /\ Respond([NoResp EXCEPT !.op = "get", !.kind = kind, !.id = id,
          !.status = IF kind = "point" THEN get_point_status(found, fault)
                     ELSE get_polygon_status(found, fault),
          !.ids = IF found /\ ~fault THEN {id} ELSE {},
          !.fault = fault])

\* --------------------------------------------------------------- list
\* get_all_points / get_all_polygons: skip, limit and name are optional
\* query parameters (None when the request leaves them out).
DefaultSkip == 0
DefaultLimit == 100

\* Where a request filters by name, a text is the sequence of its
\* characters.  ILIKE compares without regard to case.
Lower(ch) ==
    CASE ch = "A" -> "a"
      [] ch = "B" -> "b"
      [] ch = "C" -> "c"
      [] OTHER -> ch

LowerAll(t) == [i \in 1..Len(t) |-> Lower(t[i])]

\* SQL LIKE: '%' in the pattern stands for any run of characters and '_'
\* for any one character; every other character stands for itself.
RECURSIVE Like(_, _)
Like(pat, t) ==
    IF pat = <<>> THEN t = <<>>
    ELSE IF Head(pat) = "%"
    THEN Like(Tail(pat), t) \/ (t # <<>> /\ Like(pat, Tail(t)))
    ELSE /\ t # <<>>
         /\ (Head(pat) = "_" \/ Head(pat) = Head(t))
         /\ Like(Tail(pat), Tail(t))

ILike(pat, t) == Like(LowerAll(pat), LowerAll(t))

\* if name: query.where(name.ilike(f"%{name}%")); an empty name is falsy
ListMatching(kind, oname) ==
    IF IsNone(oname) \/ Val(oname) = <<>> THEN Visible(kind)
    ELSE {i \in Visible(kind) :
            ILike(<<"%">> \o Val(oname) \o <<"%">>, Val(store[kind][i]).name)}

\* The SELECT has no ORDER BY: the rows come in an order the store picks.
Orders(S) ==
    {o \in [1..Cardinality(S) -> S] :
        \A i, j \in 1..Cardinality(S) : o[i] = o[j] => i = j}

\* an OFFSET that starts one row early
Page_from_skip(order, skip, limit) ==
    {order[j] : j \in {j \in 1..Len(order) : skip <= j /\ j <= skip + limit}}

\* query.offset(skip).limit(limit)
Page(order, skip, limit) ==
    {order[j] : j \in {j \in 1..Len(order) : skip < j /\ j <= skip + limit}}

\* the store refuses a negative OFFSET or LIMIT (an exception of execute)
ListRefused(skip, limit) == skip < 0 \/ limit < 0

get_all(kind, oskip, olimit, oname, fault) ==
    LET skip == IF IsNone(oskip) THEN DefaultSkip ELSE Val(oskip)
        limit == IF IsNone(olimit) THEN DefaultLimit ELSE Val(olimit)
        r0 == [NoResp EXCEPT !.op = "list", !.kind = kind, !.skip = oskip,
                 !.limit = olimit, !.name = oname, !.fault = fault]
    IN
    /\ ListRefused(skip, limit) => fault
    /\ UNCHANGED <<store, nextId, sess, deleted, table, codec, clock>>
    /\ IF fault
       THEN Respond([r0 EXCEPT !.status = HTTP_ERROR])
       ELSE \E order \in Orders(ListMatching(kind, oname)) :
                Respond([r0 EXCEPT !.status = HTTP_OK,
                                   !.ids = Page(order, skip, limit)])

\* ------------------------------------------------------------- update
\* if x is not None: db_row.x = x; `if update.coordinates:` is truthiness
Truthy(o) == ~IsNone(o) /\ Len(Val(o)) > 0

\* an update that overwrites every field, supplied or not (PUT, not PATCH)
Assign_overwrites(kind, row, partial, ocoords) ==
    [name |-> IF ~IsNone(partial.name) THEN Val(partial.name) ELSE row.name,
     description |-> partial.description,
     attributes |-> partial.attributes,
     geom |-> IF Truthy(ocoords) THEN Wkt(kind, Val(ocoords)) ELSE row.geom]

Assign(kind, row, partial, ocoords) ==
    [name |-> IF ~IsNone(partial.name) THEN Val(partial.name) ELSE row.name,
     description |-> IF ~IsNone(partial.description)
                     THEN partial.description ELSE row.description,
     attributes |-> IF ~IsNone(partial.attributes)
                    THEN partial.attributes ELSE row.attributes,
     geom |-> IF Truthy(ocoords) THEN Wkt(kind, Val(ocoords)) ELSE row.geom]

\* The columns the session's flush puts in the UPDATE: those whose value
\* differs from the loaded one; a geometry that was assigned is a new
\* WKTElement and always counts as changed.
Fields == {"name", "description", "attributes", "geom"}

\* the fields a PointUpdate / PolygonUpdate body supplies (is not None)
Supplied(partial, f) ==
    IF f = "geom" THEN ~IsNone(partial.coordinates) ELSE ~IsNone(partial[f])

SuppliedFields(partial) == {f \in Fields : Supplied(partial, f)}

\* an UPDATE that always resets the description
Changes_resets_description(loaded, assigned, ocoords) ==
    [f \in Fields |->
        IF f = "description" THEN Some(Nothing)
        ELSE IF f = "geom"
        THEN IF Truthy(ocoords) THEN Some(assigned.geom) ELSE Nothing
        ELSE IF assigned[f] # loaded[f] THEN Some(assigned[f]) ELSE Nothing]

Changes(loaded, assigned, ocoords) ==
    [f \in Fields |->
        IF f = "geom"
        THEN IF Truthy(ocoords) THEN Some(assigned.geom) ELSE Nothing
        ELSE IF assigned[f] # loaded[f] THEN Some(assigned[f]) ELSE Nothing]

NoChanges == [f \in Fields |-> Nothing]

\* UPDATE table SET <changed columns> WHERE id = :id
ApplyChanges(row, ch) ==
    [f \in Fields |-> IF IsNone(ch[f]) THEN row[f] ELSE Val(ch[f])]

\* The lookup.  update_point runs it outside its try block: a failing
\* execute escapes the handler (500 from the server, no rollback);
\* update_polygon runs it inside (rollback, 500).  Field rollback of a
\* response tells whether the handler has called db.rollback.
update_rejected(kind, partial) ==
    /\ ~ValidateUpdate(kind, partial.coordinates).ok
    /\ UNCHANGED <<store, nextId, sess, deleted, table, codec, clock>>
    /\ Respond([NoResp EXCEPT !.op = "update", !.kind = kind,
          !.cls = OptCoordClass(kind, partial.coordinates),
          !.status = HTTP_UNPROCESSABLE])

update_begin(s, kind, id, partial, fault) ==
    LET val == ValidateUpdate(kind, partial.coordinates)
        cur == store[kind][id]
        r0 == [NoResp EXCEPT !.op = "update", !.kind = kind, !.id = id,
                 !.cls = OptCoordClass(kind, partial.coordinates)]
    IN
    /\ val.ok
    /\ sess[s].op = "idle"
    /\ UNCHANGED <<store, nextId, deleted, table, codec, clock>>
    /\ IF fault
       THEN /\ UNCHANGED sess
            /\ Respond([r0 EXCEPT !.status = HTTP_ERROR, !.fault = TRUE,
                                  !.rollback = (kind # "point")])
       ELSE IF IsNone(cur)
       THEN /\ UNCHANGED sess
            /\ Respond([r0 EXCEPT !.status = HTTP_NOT_FOUND])
       ELSE /\ sess' = [sess EXCEPT ![s] =
                  [Idle EXCEPT !.op = "update", !.kind = kind, !.id = id,
                     !.partial = partial, !.began = clock,
                     !.changes = Changes(Val(cur),
                                    Assign(kind, Val(cur), partial, val.v),
                                    val.v)]]
            /\ UNCHANGED <<resp, views, stamp>>

\* db.commit (the UPDATE of the changed columns when there are any, which
\* raises StaleDataError when the row is gone; then COMMIT), db.refresh
\* (raises when the row is gone), to_geojson.
UpdateFaults == {"none", "commit", "refresh", "serialize"}

update_commit(s, fault) ==
    LET kind == sess[s].kind
        id == sess[s].id
        ch == sess[s].changes
        cur == store[kind][id]
        dirty == ch # NoChanges
        stale == dirty /\ IsNone(cur)
        committed == fault # "commit" /\ ~stale
        gone == committed /\ IsNone(cur)
    IN
    /\ sess[s].op = "update"
    /\ UNCHANGED <<nextId, deleted, table, codec, clock>>
    /\ store' = IF committed /\ dirty
                THEN [store EXCEPT ![kind][id] = Some(ApplyChanges(Val(cur), ch))]
                ELSE store
    /\ sess' = [sess EXCEPT ![s] = Idle]
    /\ RespondAt([NoResp EXCEPT !.op = "update", !.kind = kind, !.id = id,
          !.cls = "ok", !.ids = {id},
          !.supplied = SuppliedFields(sess[s].partial),
          !.status = IF committed /\ ~gone /\ fault = "none"
                     THEN HTTP_OK ELSE HTTP_ERROR,
          !.fault = (stale \/ gone \/ fault # "none"),
          !.rollback = (stale \/ gone \/ fault # "none")],
          sess[s].began,
          IF committed /\ dirty THEN {<<kind, id>>} ELSE {})

\* ------------------------------------------------------------- delete
\* a delete that answers 204 for an id that is not stored
delete_begin_idempotent(s, kind, id, fault) ==
    LET r0 == [NoResp EXCEPT !.op = "delete", !.kind = kind, !.id = id]
    IN
    /\ sess[s].op = "idle"
    /\ UNCHANGED <<store, nextId, deleted, table, codec, clock>>
    /\ IF fault
       THEN /\ UNCHANGED sess
            /\ Respond([r0 EXCEPT !.status = HTTP_ERROR, !.fault = TRUE,
                                  !.rollback = TRUE])
       ELSE IF IsNone(store[kind][id])
       THEN /\ UNCHANGED sess
            /\ Respond([r0 EXCEPT !.status = HTTP_NO_CONTENT])
       ELSE /\ sess' = [sess EXCEPT ![s] =
                  [Idle EXCEPT !.op = "delete", !.kind = kind, !.id = id]]
            /\ UNCHANGED <<resp, views, stamp>>

delete_begin(s, kind, id, fault) ==
    LET r0 == [NoResp EXCEPT !.op = "delete", !.kind = kind, !.id = id]
    IN
    /\ sess[s].op = "idle"
    /\ UNCHANGED <<store, nextId, deleted, table, codec, clock>>
    /\ IF fault
       THEN /\ UNCHANGED sess
            /\ Respond([r0 EXCEPT !.status = HTTP_ERROR, !.fault = TRUE,
                                  !.rollback = TRUE])
       ELSE IF IsNone(store[kind][id])
       THEN /\ UNCHANGED sess
            /\ Respond([r0 EXCEPT !.status = HTTP_NOT_FOUND])
       ELSE /\ sess' = [sess EXCEPT ![s] =
                  [Idle EXCEPT !.op = "delete", !.kind = kind, !.id = id]]
            /\ UNCHANGED <<resp, views, stamp>>

\* db.delete, db.commit: the DELETE of a row that another request has
\* deleted meanwhile matches no row, which the session only warns about.
delete_commit(s, fault) ==
    LET kind == sess[s].kind
        id == sess[s].id
    IN
    /\ sess[s].op = "delete"
    /\ UNCHANGED <<nextId, table, codec, clock>>
    /\ store' = IF fault THEN store ELSE [store EXCEPT ![kind][id] = Nothing]
    /\ deleted' = IF fault THEN deleted ELSE deleted \cup {<<kind, id>>}
    /\ sess' = [sess EXCEPT ![s] = Idle]
    /\ Respond([NoResp EXCEPT !.op = "delete", !.kind = kind, !.id = id,
          !.ids = {id},
          !.status = IF fault THEN HTTP_ERROR ELSE HTTP_NO_CONTENT,
          !.fault = fault, !.rollback = fault])

Next ==
    \/ \E b \in Bodies(table) : \E f \in CreateFaults : create(table, b, f)
    \/ \E items \in BatchItems(table) : create_batch_rejected(table, items)
    \/ \E s \in Sessions : \E items \in BatchItems(table) :
            create_batch_begin(s, table, items)
    \/ \E s \in Sessions : \E f \in BatchFaults : create_batch_step(s, f)
    \/ \E s \in Sessions : \E f \in {"none", "commit"} : create_batch_commit(s, f)
    \/ \E i \in Ids : \E f \in BOOLEAN : get(table, i, f)
    \/ \E f \in BOOLEAN : get_all(table, Nothing, Nothing, Nothing, f)
    \/ \E p \in Partials(table) : update_rejected(table, p)
    \/ \E s \in Sessions : \E i \in Ids : \E p \in Partials(table) :
        \E f \in BOOLEAN : update_begin(s, table, i, p, f)
    \/ \E s \in Sessions : \E f \in UpdateFaults : update_commit(s, f)
    \/ \E s \in Sessions : \E i \in Ids : \E f \in BOOLEAN :
            delete_begin(s, table, i, f)
    \/ \E s \in Sessions : \E f \in BOOLEAN : delete_commit(s, f)

Spec == Init /\ [][Next]_vars

\* ------------------------------------------------ batches of several
\* Specification SpecBatch: batches of entities that differ in name and in
\* geometry.
OrderedBodies(kind) ==
    IF kind = "point" THEN {NamedBody("n1", B), NamedBody("n2", C)}
    ELSE {NamedBody("n1", <<A, B, C>>), NamedBody("n2", <<A, C, B, A>>)}

OrderedItems(kind) ==
    UNION {[1..n -> OrderedBodies(kind)] : n \in 1..MaxBatch}

NextBatch ==
    \/ \E s \in Sessions : \E items \in OrderedItems(table) :
            create_batch_begin(s, table, items)
    \/ \E s \in Sessions : \E f \in BatchFaults : create_batch_step(s, f)
    \/ \E s \in Sessions : \E f \in {"none", "commit"} : create_batch_commit(s, f)
    \/ \E f \in BOOLEAN : get_all(table, Nothing, Nothing, Nothing, f)

SpecBatch == Init /\ [][NextBatch]_vars

\* --------------------------------------------------------------- routes
\* The routes of each router in the order of their decorators: the method,
\* the path below the router's prefix as a sequence of segments ("{id}" is
\* a path parameter declared int), the handler, and the operation of the
\* service the handler carries out.
Route(method, path, handler, operation) ==
    [method |-> method, path |-> path, handler |-> handler,
     operation |-> operation]

PointRoutes ==
    <<Route("POST", <<>>, "create_point", "create"),
      Route("POST", <<"batch">>, "create_points_batch", "create_batch"),
      Route("GET", <<>>, "get_all_points", "list"),
      Route("GET", <<"{id}">>, "get_point", "get"),
      Route("PUT", <<"{id}">>, "update_point", "update"),
      Route("DELETE", <<"{id}">>, "delete_point", "delete")>>

PolygonRoutes ==
    <<Route("POST", <<>>, "create_polygon", "create"),
      Route("POST", <<"batch">>, "create_polygons_batch", "create_batch"),
      Route("GET", <<>>, "get_all_polygons", "list"),
      Route("GET", <<"{id}">>, "get_polygon", "get"),
      Route("PUT", <<"{id}">>, "update_polygon", "update"),
      Route("DELETE", <<"{id}">>, "delete_polygon", "delete"),
      Route("GET", <<"{id}", "points">>, "find_points_within_polygon",
            "points_within_polygon"),
      Route("GET", <<"intersect">>, "find_intersecting_polygons",
            "intersecting_polygons"),
      Route("GET", <<"contains">>, "find_polygons_containing_point",
            "polygons_containing_point")>>

GeoRoutes ==
    <<Route("GET", <<"intersect">>, "find_intersecting_polygons",
            "intersecting_polygons")>>

Routers == {"points", "polygons", "geo"}

Routes(router) ==
    CASE router = "points" -> PointRoutes
      [] router = "polygons" -> PolygonRoutes
      [] OTHER -> GeoRoutes

\* a route's path matches a request path of as many segments, a parameter
\* standing for any one segment
PathMatches(pattern, path) ==
    /\ Len(pattern) = Len(path)
    /\ \A j \in 1..Len(path) : pattern[j] = "{id}" \/ pattern[j] = path[j]

\* the text of a segment reads as an int
IsIntText(seg) == seg \in {"1", "2", "99999"}

\* The first route whose path and method match takes the request; when
\* none does, a route whose path alone matches makes it 405, else 404.
\* The handler's int parameter is read from the segment it stands for: a
\* segment that is no number is answered 422 by the route that took it.
Dispatch(router, method, path) ==
    LET routes == Routes(router)
        full == {i \in 1..Len(routes) :
                    /\ PathMatches(routes[i].path, path)
                    /\ routes[i].method = method}
        partial == {i \in 1..Len(routes) : PathMatches(routes[i].path, path)}
        first == CHOOSE i \in full : \A j \in full : i <= j
        r == routes[first]
    IN IF full = {}
       THEN [handler |-> "", operation |-> "",
             status |-> IF partial = {} THEN HTTP_NOT_FOUND
                        ELSE HTTP_METHOD_NOT_ALLOWED]
       ELSE [handler |-> r.handler, operation |-> r.operation,
             status |-> IF \E j \in 1..Len(path) :
                              r.path[j] = "{id}" /\ ~IsIntText(path[j])
                        THEN HTTP_UNPROCESSABLE ELSE 0]

Methods == {"GET", "POST", "PUT", "DELETE"}

Segments == {"1", "99999", "batch", "points", "intersect", "contains", "radius"}

RequestPaths ==
    {<<>>} \cup {<<a>> : a \in Segments}
    \cup {<<a, b>> : a \in {"1", "contains"}, b \in {"points", "radius"}}

\* a request reaches the application and is given to a route
route(router, method, path) ==
    LET d == Dispatch(router, method, path) IN
    /\ UNCHANGED <<store, nextId, sess, deleted, table, codec, clock>>
    /\ Respond([NoResp EXCEPT !.op = "route", !.router = router,
          !.method = method, !.path = path, !.handler = d.handler,
          !.operation = d.operation, !.status = d.status])

NextRoute ==
    \E router \in Routers : \E method \in Methods : \E path \in RequestPaths :
        route(router, method, path)

SpecRoute == Init /\ [][NextRoute]_vars

\* the operations that some route of the service carries out
Offered == UNION {{Routes(r)[i].operation : i \in 1..Len(Routes(r))} : r \in Routers}

\* ----------------------------------------------------- names of entities
\* Specification SpecName: entities are created and renamed with the names
\* a body can carry, the empty string among them (name: str).
Names == {"", "n1"}

NameBodies(kind) ==
    {NamedBody(n, IF kind = "point" THEN B ELSE <<A, B, C>>) : n \in Names}

NameItems(kind) == UNION {[1..n -> NameBodies(kind)] : n \in 1..MaxBatch}

NamePartials ==
    {Partial(Some(n), Nothing, Nothing, Nothing) : n \in Names}
    \cup {Partial(Nothing, Some("d2"), Nothing, Nothing)}

NextName ==
    \/ \E b \in NameBodies(table) : create(table, b, "none")
    \/ \E s \in Sessions : \E items \in NameItems(table) :
            create_batch_begin(s, table, items)
    \/ \E s \in Sessions : create_batch_step(s, "none")
    \/ \E s \in Sessions : create_batch_commit(s, "none")
    \/ \E s \in Sessions : \E i \in Ids : \E p \in NamePartials :
            update_begin(s, table, i, p, FALSE)
    \/ \E s \in Sessions : update_commit(s, "none")

SpecName == Init /\ [][NextName]_vars

\* ------------------------------------------------- concurrent updates
\* Specification SpecConc: several update requests, each on its own
\* session, read and write the first row of a table.
Writers == 1..MaxWriters

ConcPartials(kind) ==
    {Partial(Some("n2"), Some("d2"), Nothing, Nothing),
     Partial(Some("n1"), Some("d3"), Nothing, Nothing),
     Partial(Nothing, Nothing, Nothing,
             Some(IF kind = "point" THEN C ELSE <<A, C, B, A>>))}

InitConc ==
    /\ store = [k \in Kinds |-> [i \in Ids |-> Nothing]]
    /\ nextId = [k \in Kinds |-> 1]
    /\ sess = [s \in Writers |-> Idle]
    /\ resp = NoResp
    /\ deleted = {}
    /\ clock = 0
    /\ stamp = [k \in Kinds |-> [i \in Ids |-> Nothing]]
    /\ views = [s \in Writers |-> {}]
    /\ table \in Kinds
    /\ codec = NoCodec

NextConc ==
    \/ \E b \in {Body(IF table = "point" THEN B ELSE <<A, B, C>>)} :
            create(table, b, "none")
    \/ \E s \in Writers : \E p \in ConcPartials(table) :
            update_begin(s, table, 1, p, FALSE)
    \/ \E s \in Writers : update_commit(s, "none")

SpecConc == InitConc /\ [][NextConc]_vars

\* ------------------------------------------------ timestamps of rows
\* Specification SpecTime: the updates of SpecConc while time passes.
NextTime ==
    \/ tick
    \/ \E b \in {Body(IF table = "point" THEN B ELSE <<A, B, C>>)} :
            create(table, b, "none")
    \/ \E s \in Writers : \E p \in ConcPartials(table) :
            update_begin(s, table, 1, p, FALSE)
    \/ \E s \in Writers : update_commit(s, "none")

SpecTime == InitConc /\ [][NextTime]_vars

\* ------------------------------------------------- list with parameters
\* Specification SpecList: entities with different names are created and
\* listed with a name filter, an offset and a limit.
ListNames == {<<"a", "b">>, <<"B", "c">>, <<"c", "_">>}

ListBodies(kind) ==
    {NamedBody(n, IF kind = "point" THEN B ELSE <<A, B, C>>) : n \in ListNames}

ListFilters ==
    {Nothing, Some(<<>>), Some(<<"b">>), Some(<<"A", "B">>), Some(<<"_">>),
     Some(<<"%">>), Some(<<"x">>)}

ListSkips == {Nothing, Some(0), Some(1), Some(-1)}
ListLimits == {Nothing, Some(0), Some(1), Some(-1)}

NextList ==
    \/ \E b \in ListBodies(table) : create(table, b, "none")
    \/ \E sk \in ListSkips : \E li \in ListLimits : \E nm \in ListFilters :
        \E f \in BOOLEAN : get_all(table, sk, li, nm, f)

SpecList == Init /\ [][NextList]_vars

\* ------------------------------------------------ validators on any ring
\* Specification SpecCodec: a ring of up to MaxRing pairs is given to the
\* polygon validators, and the handler builds the WKT ring from the result.
CodecPairs == {A, B, <<LonMax + 1, 0>>, <<0>>}

RingsUpTo(n) == UNION {[1..m -> CodecPairs] : m \in 0..n}

InitCodec ==
    /\ store = [k \in Kinds |-> [i \in Ids |-> Nothing]]
    /\ nextId = [k \in Kinds |-> 1]
    /\ sess = [s \in Sessions |-> Idle]
    /\ resp = NoResp
    /\ deleted = {}
    /\ clock = 0
    /\ stamp = [k \in Kinds |-> [i \in Ids |-> Nothing]]
    /\ views = [s \in Sessions |-> {}]
    /\ table = "polygon"
    /\ codec \in {[NoCodec EXCEPT !.in = r] : r \in RingsUpTo(MaxRing)}

\* create_polygon: polygon.coordinates is the validator's result
codec_polygon_create ==
    LET out == PolygonCreate_validate_coordinates(codec.in) IN
    /\ codec.op = "none"
    /\ codec' = [op |-> "create", in |-> codec.in, out |-> out,
                 wkt |-> IF out.ok THEN Wkt("polygon", out.v) ELSE <<>>]
    /\ UNCHANGED <<store, nextId, sess, resp, deleted, table, clock, stamp, views>>

\* update_polygon with coordinates supplied
codec_polygon_update ==
    LET out == PolygonUpdate_validate_coordinates(Some(codec.in)) IN
    /\ codec.op = "none"
    /\ codec' = [op |-> "update", in |-> codec.in,
                 out |-> IF out.ok THEN Valid(Val(out.v)) ELSE Invalid,
                 wkt |-> IF out.ok /\ Truthy(out.v)
                         THEN Wkt("polygon", Val(out.v)) ELSE <<>>]
    /\ UNCHANGED <<store, nextId, sess, resp, deleted, table, clock, stamp, views>>

NextCodec == codec_polygon_create \/ codec_polygon_update

SpecCodec == InitCodec /\ [][NextCodec]_vars

\* ------------------------------------------------------ spatial queries
\* The coordinates query parameter of /api/geo/intersect is a string.  A
\* JSON number is <<value, "i">> when written as an integer and
\* <<value, "f">> when written with a fraction (7 and 7.0).
JInt(n) == <<n, "i">>
JFlt(n) == <<n, "f">>
JP(x, y) == <<JInt(x), JInt(y)>>

NotJson == [ok |-> FALSE, list |-> FALSE, v |-> <<>>]
JsonNumber == [ok |-> TRUE, list |-> FALSE, v |-> <<>>]
JsonList(v) == [ok |-> TRUE, list |-> TRUE, v |-> v]

RawInputs ==
    {"invalid", "5", "[]", "[[0,0],[0,10]]", "[[0,0],[0,10],[10,10]]",
     "[[0,0],[0,10],[10,10],[0,0]]", "[[0,0],[0,10],[10,10],[0.0,0.0]]",
     "[[200,0],[200,10],[210,10]]", "[[0,0],[0],[10,10]]"}

\* json.loads on the inputs above
JsonLoads(raw) ==
    CASE raw = "invalid" -> NotJson
      [] raw = "5" -> JsonNumber
      [] raw = "[]" -> JsonList(<<>>)
      [] raw = "[[0,0],[0,10]]" -> JsonList(<<JP(0, 0), JP(0, 10)>>)
      [] raw = "[[0,0],[0,10],[10,10]]" ->
            JsonList(<<JP(0, 0), JP(0, 10), JP(10, 10)>>)
      [] raw = "[[0,0],[0,10],[10,10],[0,0]]" ->
            JsonList(<<JP(0, 0), JP(0, 10), JP(10, 10), JP(0, 0)>>)
      [] raw = "[[0,0],[0,10],[10,10],[0.0,0.0]]" ->
            JsonList(<<JP(0, 0), JP(0, 10), JP(10, 10), <<JFlt(0), JFlt(0)>>>>)
      [] raw = "[[200,0],[200,10],[210,10]]" ->
            JsonList(<<JP(200, 0), JP(200, 10), JP(210, 10)>>)
      [] raw = "[[0,0],[0],[10,10]]" ->
            JsonList(<<JP(0, 0), <<JInt(0)>>, JP(10, 10)>>)
      [] raw = "[[7,7],[7,12],[12,12],[12,7],[7,7]]" ->
            JsonList(<<JP(7, 7), JP(7, 12), JP(12, 12), JP(12, 7), JP(7, 7)>>)
      [] raw = "[[7,7],[7,12],[12,12],[12,7]]" ->
            JsonList(<<JP(7, 7), JP(7, 12), JP(12, 12), JP(12, 7)>>)
      [] raw = "[[7,7],[7,12],[12,12],[12,7],[7.0,7.0]]" ->
            JsonList(<<JP(7, 7), JP(7, 12), JP(12, 12), JP(12, 7),
                       <<JFlt(7), JFlt(7)>>>>)
      [] raw = "[[12,12],[12,18],[18,18],[18,12]]" ->
            JsonList(<<JP(12, 12), JP(12, 18), JP(18, 18), JP(18, 12)>>)
      [] OTHER -> NotJson

\* the numbers a list of JSON pairs denotes
Numbers(v) == [i \in 1..Len(v) |-> [j \in 1..Len(v[i]) |-> v[i][j][1]]]

\* What the input is, in the words of the error model.
RawClass(raw) ==
    LET j == JsonLoads(raw) IN
    IF ~j.ok THEN "notjson"
    ELSE IF ~j.list THEN "notlist"
    ELSE CoordClass("polygon", Numbers(j.v))

\* geo.py find_intersecting_polygons up to the query: json.loads raises on
\* text that is not JSON; the comprehension `for lon, lat in coords` raises
\* on a value that is no list and on a pair of arity other than 2;
\* coord_strings[0] raises on an empty list.  coord_strings holds the
\* formatted pairs, compared as text when the ring is closed.
IntersectRaises(raw) ==
    LET j == JsonLoads(raw) IN
    \/ ~j.ok
    \/ ~j.list
    \/ \E i \in 1..Len(j.v) : Len(j.v[i]) # 2
    \/ Len(j.v) = 0

IntersectWkt(raw) ==
    LET coord_strings == JsonLoads(raw).v IN
    Numbers(IF coord_strings[1] # coord_strings[Len(coord_strings)]
            THEN Append(coord_strings, coord_strings[1])
            ELSE coord_strings)

\* the store refuses (an exception of execute) a ring of fewer than 4 pairs
IntersectRefused(raw) ==
    ~IntersectRaises(raw) /\ Len(IntersectWkt(raw)) < MinWktRing

\* a query that has lost its WHERE clause
IntersectResult_all(raw) == Visible("polygon")

\* select(SpatialPolygon).where(ST_Intersects(SpatialPolygon.geom, query_geom))
IntersectResult(raw) ==
    {i \in Visible("polygon") :
        ST_Intersects(Val(store["polygon"][i]).geom, IntersectWkt(raw))}

\* a handler that answers input it cannot read with 422
find_intersecting_polygons_status_422(raw, fault) ==
    IF IntersectRaises(raw) THEN HTTP_UNPROCESSABLE
    ELSE IF fault THEN HTTP_ERROR ELSE HTTP_OK

\* every exception, the ones above and a failing execute, is answered 500
find_intersecting_polygons_status(raw, fault) ==
    IF IntersectRaises(raw) THEN HTTP_ERROR
    ELSE IF fault THEN HTTP_ERROR ELSE HTTP_OK

find_intersecting_polygons(raw, fault) ==
    /\ IntersectRaises(raw) => ~fault
    /\ IntersectRefused(raw) => fault
    /\ UNCHANGED <<store, nextId, sess, deleted, table, codec, clock>>
    /\ Respond([NoResp EXCEPT !.op = "intersect", !.kind = "polygon",
          !.raw = raw, !.cls = RawClass(raw),
          !.queried = ~IntersectRaises(raw),
          !.status = find_intersecting_polygons_status(raw, fault),
          !.ids = IF IntersectRaises(raw) \/ fault THEN {}
                  ELSE IntersectResult(raw),
          !.fault = fault])

\* polygons.py find_polygons_containing_point: lon and lat are floats, put
\* in the WKT literal as they come, and the query is executed.
QueryLons == {0, LonMax, LonMax + 20, LonMin - 1}
QueryLats == {0, LatMin, LatMax + 5}

\* select(SpatialPolygon).where(ST_Contains(SpatialPolygon.geom, point_geom))
ContainsResult(lon, lat) ==
    {i \in Visible("polygon") :
        ST_Contains(Val(store["polygon"][i]).geom, <<lon, lat>>)}

find_polygons_containing_point(lon, lat, fault) ==
    /\ UNCHANGED <<store, nextId, sess, deleted, table, codec, clock>>
    /\ Respond([NoResp EXCEPT !.op = "contains", !.kind = "polygon",
          !.cls = CoordClass("point", <<lon, lat>>),
          !.queried = TRUE,
          !.status = IF fault THEN HTTP_ERROR ELSE HTTP_OK,
          !.ids = IF fault THEN {} ELSE ContainsResult(lon, lat),
          !.fault = fault])

\* polygons.py find_points_within_polygon: the polygon is looked up, a
\* missing one is answered 404 (re-raised by `except HTTPException`), then
\* the points within its stored geometry are selected.  Any other exception
\* is answered 500.  The ids of the answer are ids of points.
\* a handler whose 404 is swallowed by `except Exception`
find_points_within_polygon_status_500(found, fault) ==
    IF fault THEN HTTP_ERROR ELSE IF found THEN HTTP_OK ELSE HTTP_ERROR

find_points_within_polygon_status(found, fault) ==
    IF fault THEN HTTP_ERROR ELSE IF found THEN HTTP_OK ELSE HTTP_NOT_FOUND

\* a query that selects the points the polygon touches as well
WithinResult_covers(polygon) ==
    {i \in Visible("point") :
        \/ ST_Within(Val(store["point"][i]).geom, polygon.geom)
        \/ OnBoundary(Val(store["point"][i]).geom, polygon.geom)}

\* select(SpatialPoint).where(ST_Within(SpatialPoint.geom, polygon.geom))
WithinResult(polygon) ==
    {i \in Visible("point") :
        ST_Within(Val(store["point"][i]).geom, polygon.geom)}

\* The handler reads the store twice, each db.execute being a statement of
\* its own in the session's transaction: other requests commit in between.
\* First the lookup of the polygon, which the session keeps as loaded.
find_points_within_polygon_lookup(s, polygon_id, fault) ==
    LET cur == store["polygon"][polygon_id]
        r0 == [NoResp EXCEPT !.op = "within", !.kind = "polygon",
                 !.id = polygon_id]
    IN
    /\ sess[s].op = "idle"
    /\ UNCHANGED <<store, nextId, deleted, table, codec, clock>>
    /\ IF fault \/ IsNone(cur)
       THEN /\ UNCHANGED sess
            /\ Respond([r0 EXCEPT
                  !.status = find_points_within_polygon_status(~IsNone(cur), fault),
                  !.fault = fault])
       ELSE /\ sess' = [sess EXCEPT ![s] =
                  [Idle EXCEPT !.op = "within", !.kind = "polygon",
                     !.id = polygon_id, !.loaded = cur]]
            /\ views' = [views EXCEPT ![s] = AnswerIn(store, polygon_id)]
            /\ UNCHANGED <<resp, stamp>>

\* then the query of the points, with the geom of the loaded polygon as
\* its parameter
find_points_within_polygon_query(s, fault) ==
    /\ sess[s].op = "within"
    /\ UNCHANGED <<store, nextId, deleted, table, codec, clock, stamp>>
    /\ sess' = [sess EXCEPT ![s] = Idle]
    /\ views' = [views EXCEPT ![s] = {}]
    /\ resp' = [NoResp EXCEPT !.op = "within", !.kind = "polygon",
          !.id = sess[s].id,
          !.status = find_points_within_polygon_status(TRUE, fault),
          !.ids = IF fault THEN {} ELSE WithinResult(Val(sess[s].loaded)),
          !.fault = fault]

InitGeo == Init /\ table = "polygon"

NextGeo ==
    \/ \E b \in Bodies("polygon") : create("polygon", b, "none")
    \/ \E raw \in RawInputs : \E f \in BOOLEAN :
            find_intersecting_polygons(raw, f)
    \/ \E lon \in QueryLons : \E lat \in QueryLats : \E f \in BOOLEAN :
            find_polygons_containing_point(lon, lat, f)

SpecGeo == InitGeo /\ [][NextGeo]_vars

\* ----------------------------------------------- queries over stored shapes
\* Specification SpecSpatial: points and squares are created in both tables
\* and every read operation is run against them.
Square(lo, hi) == <<<<lo, lo>>, <<lo, hi>>, <<hi, hi>>, <<hi, lo>>, <<lo, lo>>>>

SpatialBodies(kind) ==
    IF kind = "point"
    THEN {Body(<<5, 5>>), Body(<<15, 15>>), Body(<<10, 5>>)}
    ELSE {Body(Square(0, 10)), Body(Square(20, 30))}

RingQueries ==
    {"[[7,7],[7,12],[12,12],[12,7],[7,7]]", "[[7,7],[7,12],[12,12],[12,7]]",
     "[[7,7],[7,12],[12,12],[12,7],[7.0,7.0]]",
     "[[12,12],[12,18],[18,18],[18,12]]", "[[0,0],[0,10]]", "invalid"}

PointQueries == {<<5, 5>>, <<10, 5>>, <<25, 25>>}

InitSpatial == Init /\ table = "polygon"

NextSpatial ==
    \/ \E k \in Kinds : \E b \in SpatialBodies(k) : create(k, b, "none")
    \/ \E k \in Kinds : \E i \in Ids : \E f \in BOOLEAN : get(k, i, f)
    \/ \E k \in Kinds : \E f \in BOOLEAN :
            get_all(k, Nothing, Nothing, Nothing, f)
    \/ \E s \in Sessions : \E i \in Ids : \E f \in BOOLEAN :
            find_points_within_polygon_lookup(s, i, f)
    \/ \E s \in Sessions : \E f \in BOOLEAN :
            find_points_within_polygon_query(s, f)
    \/ \E raw \in RingQueries : \E f \in BOOLEAN :
            find_intersecting_polygons(raw, f)
    \/ \E q \in PointQueries : \E f \in BOOLEAN :
            find_polygons_containing_point(q[1], q[2], f)

SpecSpatial == InitSpatial /\ [][NextSpatial]_vars

\* ------------------------------------------- reads among committing writes
\* Specification SpecView: find_points_within_polygon of polygon 1 runs while
\* other requests create and delete points and create, move and delete the
\* polygon.
ViewBodies(kind) ==
    IF kind = "point" THEN {Body(<<5, 5>>)} ELSE {Body(Square(0, 10))}

ViewPartials ==
    {Partial(Nothing, Nothing, Nothing, Some(Square(20, 30)))}

InitView == InitConc /\ table = "polygon"

NextView ==
    \/ \E k \in Kinds : \E b \in ViewBodies(k) : create(k, b, "none")
    \/ \E s \in Writers : \E p \in ViewPartials :
            update_begin(s, "polygon", 1, p, FALSE)
    \/ \E s \in Writers : update_commit(s, "none")
    \/ \E s \in Writers : \E k \in Kinds : delete_begin(s, k, 1, FALSE)
    \/ \E s \in Writers : delete_commit(s, FALSE)
    \/ \E s \in Writers : find_points_within_polygon_lookup(s, 1, FALSE)
    \/ \E s \in Writers : find_points_within_polygon_query(s, FALSE)

SpecView == InitView /\ [][NextView]_vars

\* ================================================================ claims
\* C1: get(id) on an id that resolves to no stored entity is answered 404,
\* for points and for polygons (no store call having failed).
C1_GetMissingIsNotFound ==
    (resp.op = "get" /\ ~resp.fault /\ IsNone(store[resp.kind][resp.id]))
        => resp.status = HTTP_NOT_FOUND

\* C2: once delete(id) has succeeded, every later get(id) is answered 404.
C2_DeletedStaysNotFound ==
    (resp.op = "get" /\ ~resp.fault /\ <<resp.kind, resp.id>> \in deleted)
        => resp.status = HTTP_NOT_FOUND

\* C3: a create that ends with an error leaves no row of that request in
\* the table, whichever step failed.
C3_FailedCreateLeavesNothing ==
    (resp.op = "create" /\ resp.status # HTTP_CREATED)
        => \A i \in resp.ids : IsNone(store[resp.kind][i])

\* C4: create_batch is all-or-nothing: after a failed batch none of its
\* rows is in the table (the flushed ones included) and the table is as it
\* was; after a successful one all of them are.
C4_BatchAllOrNothing ==
    resp.op = "batch" =>
        IF resp.status = HTTP_CREATED
        THEN /\ Cardinality(resp.ids) = resp.n
             /\ \A i \in resp.ids : ~IsNone(store[resp.kind][i])
        ELSE /\ \A i \in resp.ids : IsNone(store[resp.kind][i])
             /\ ~resp.changed

\* a batch of two that failed after its first row was flushed
C4_Witness ==
    /\ resp.op = "batch" /\ resp.status = HTTP_ERROR
    /\ resp.n = 2 /\ resp.ids # {}

\* C5: while a create_batch is in progress, what a reader can see, and
\* what the last list or get did see, never holds some but not all of the
\* batch's rows.
SeesPartOf(seen, s) ==
    LET flushed == TxnIds(sess[s].pending) IN
    /\ seen \cap flushed # {}
    /\ (sess[s].todo # <<>> \/ ~(flushed \subseteq seen))

C5_NoPartialBatchVisible ==
    \A s \in Sessions :
        sess[s].op = "batch" =>
            /\ ~SeesPartOf(Visible(sess[s].kind), s)
            /\ (resp.op \in {"list", "get"} /\ resp.kind = sess[s].kind)
                    => ~SeesPartOf(resp.ids, s)

\* a batch with one row flushed and one to go, and a reader that was
\* answered with the rows committed before
C5_Witness ==
    \E s \in Sessions :
        /\ sess[s].op = "batch"
        /\ Len(sess[s].pending) = 1 /\ Len(sess[s].todo) = 1
        /\ resp.op = "list" /\ resp.status = HTTP_OK /\ resp.ids # {}

\* C6: the commit of update(id, partial) leaves every field that the
\* partial does not supply as it was, moves no row and touches no other row.
C6_UpdateFrame ==
    [][\A s \in Sessions :
          (sess[s].op = "update" /\ sess'[s].op = "idle") =>
              LET k == sess[s].kind
                  i == sess[s].id
              IN /\ \A j \in Ids \ {i} : store'[k][j] = store[k][j]
                 /\ IsNone(store'[k][i]) = IsNone(store[k][i])
                 /\ ~IsNone(store[k][i]) =>
                      \A f \in Fields :
                          ~Supplied(sess[s].partial, f) =>
                              Val(store'[k][i])[f] = Val(store[k][i])[f]]_vars

\* an update of the name alone has been answered 200 and the row holds the
\* new name with the description, attributes it was created with
C6_Witness ==
    /\ resp.op = "update" /\ resp.status = HTTP_OK /\ resp.changed
    /\ ~IsNone(store[resp.kind][resp.id])
    /\ Val(store[resp.kind][resp.id]).name = "n2"
    /\ Val(store[resp.kind][resp.id]).description = Some("d1")
    /\ Val(store[resp.kind][resp.id]).attributes = Some("a1")

\* C7: on create and on update alike, a ring of at least 3 pairs, all of
\* arity 2 and in range, is accepted, and the ring sent to the store is the
\* ring with its first pair appended when first and last differ, and the
\* ring itself when they are equal.
C7_RingClosure ==
    (/\ codec.op \in {"create", "update"}
     /\ Len(codec.in) >= MinRing
     /\ \A i \in 1..Len(codec.in) : PairInRange(codec.in[i]))
        => /\ codec.out.ok
           /\ codec.in[1] # codec.in[Len(codec.in)]
                => codec.wkt = codec.in \o <<codec.in[1]>>
           /\ codec.in[1] = codec.in[Len(codec.in)]
                => codec.wkt = codec.in

\* an update with an open ring of three pairs, sent as four
C7_Witness ==
    /\ codec.op = "update"
    /\ Len(codec.in) = 3 /\ codec.in[1] # codec.in[3]
    /\ codec.out.ok /\ Len(codec.wkt) = 4

\* C8: a create, create_batch or update with a pair of arity other than 2
\* or out of range is answered 422 and changes no row; one whose pairs are
\* all in range (the boundary values included) is not answered 422; every
\* stored pair is in range.
GeomInRange(kind, geom) ==
    IF kind = "point" THEN PairInRange(geom)
    ELSE \A i \in 1..Len(geom) : PairInRange(geom[i])

C8_BoundsEnforced ==
    /\ resp.op \in {"create", "batch", "update"} =>
        /\ resp.cls = "badpair" =>
                (resp.status = HTTP_UNPROCESSABLE /\ ~resp.changed)
        /\ resp.cls = "ok" => resp.status # HTTP_UNPROCESSABLE
    /\ \A k \in Kinds : \A i \in Ids :
        ~IsNone(store[k][i]) => GeomInRange(k, Val(store[k][i]).geom)

\* a request out of range refused while a point on the boundary
\* (-180, -90) is stored
C8_Witness ==
    /\ resp.op \in {"create", "batch", "update"}
    /\ resp.cls = "badpair" /\ resp.status = HTTP_UNPROCESSABLE
    /\ \E i \in Ids : /\ ~IsNone(store["point"][i])
                      /\ Val(store["point"][i]).geom = <<LonMin, LatMin>>

\* C9: the spatial queries answer a pair out of range or of wrong arity, a
\* ring of fewer than 3 pairs and text that is not JSON with a 4xx, and
\* issue no query for them.
C9_QueriesValidateInput ==
    (resp.op \in {"intersect", "contains"}
        /\ resp.cls \in {"badpair", "short", "notjson"})
        => /\ resp.status >= 400 /\ resp.status < HTTP_ERROR
           /\ ~resp.queried

\* C10: /api/geo/intersect with coordinates that are not JSON is answered
\* 500 and no row changes.
C10_BadJsonIs500 ==
    (resp.op = "intersect" /\ resp.cls = "notjson")
        => resp.status = HTTP_ERROR /\ ~resp.changed

\* coordinates=invalid answered while a polygon is stored
C10_Witness ==
    /\ resp.op = "intersect" /\ resp.raw = "invalid"
    /\ resp.status = HTTP_ERROR
    /\ Visible("polygon") # {}

\* C11: points_within_polygon(polygon_id) is answered 404 when no polygon
\* with that id is stored; otherwise it is answered 200 with exactly the
\* stored points within the polygon's stored geometry.  For the square
\* (0,0)-(10,10) the point (5,5) is in the answer and (15,15) is not.
PointsAt(pair) ==
    {i \in Visible("point") : Val(store["point"][i]).geom = pair}

C11_PointsWithinPolygon ==
    (resp.op = "within" /\ ~resp.fault) =>
        IF IsNone(store["polygon"][resp.id])
        THEN resp.status = HTTP_NOT_FOUND /\ resp.ids = {}
        ELSE LET ring == Val(store["polygon"][resp.id]).geom IN
             /\ resp.status = HTTP_OK
             /\ resp.ids = {i \in Visible("point") :
                                Interior(Val(store["point"][i]).geom, ring)}
             /\ ring = Square(0, 10) =>
                    /\ PointsAt(<<5, 5>>) \subseteq resp.ids
                    /\ PointsAt(<<15, 15>>) \cap resp.ids = {}

\* the square (0,0)-(10,10) queried with (5,5) and (15,15) stored
C11_Witness ==
    /\ resp.op = "within" /\ resp.status = HTTP_OK
    /\ Val(store["polygon"][resp.id]).geom = Square(0, 10)
    /\ PointsAt(<<5, 5>>) # {} /\ PointsAt(<<5, 5>>) \subseteq resp.ids
    /\ PointsAt(<<15, 15>>) # {} /\ PointsAt(<<15, 15>>) \cap resp.ids = {}

\* C12: intersecting_polygons(raw_ring), when it is answered 200, returns
\* exactly the stored polygons that intersect the polygon of the raw ring,
\* closed when its first and last pairs differ.  The query square
\* (7,7)-(12,12) returns a stored square (0,0)-(10,10) and never a stored
\* square (20,20)-(30,30).
PolygonsAt(ring) ==
    {i \in Visible("polygon") : Val(store["polygon"][i]).geom = ring}

QueryRing(raw) == CloseRing(Numbers(JsonLoads(raw).v))

C12_IntersectingPolygons ==
    (resp.op = "intersect" /\ resp.status = HTTP_OK) =>
        /\ resp.ids = {i \in Visible("polygon") :
                ST_Intersects(Val(store["polygon"][i]).geom,
                              QueryRing(resp.raw))}
        /\ QueryRing(resp.raw) = Square(7, 12) =>
                /\ PolygonsAt(Square(0, 10)) \subseteq resp.ids
                /\ PolygonsAt(Square(20, 30)) \cap resp.ids = {}

\* the open ring of the square (7,7)-(12,12) queried with both squares
\* stored: one is returned and the other is not
C12_Witness ==
    /\ resp.op = "intersect" /\ resp.status = HTTP_OK
    /\ resp.raw = "[[7,7],[7,12],[12,12],[12,7]]"
    /\ PolygonsAt(Square(0, 10)) # {}
    /\ PolygonsAt(Square(0, 10)) \subseteq resp.ids
    /\ PolygonsAt(Square(20, 30)) # {}
    /\ PolygonsAt(Square(20, 30)) \cap resp.ids = {}

\* C13: a list with a name filter returns only entities whose name holds
\* the filter as a substring, letter case aside, whatever characters the
\* filter is made of; a list without a filter, or with an empty one, and
\* with the default offset and limit returns every stored entity.
HasSubstring(t, sub) ==
    \E k \in 0..(Len(t) - Len(sub)) :
        LowerAll(SubSeq(t, k + 1, k + Len(sub))) = LowerAll(sub)

Filtering(oname) == ~IsNone(oname) /\ Val(oname) # <<>>

C13_NameFilterIsSubstring ==
    (resp.op = "list" /\ resp.status = HTTP_OK) =>
        IF Filtering(resp.name)
        THEN \A i \in resp.ids :
                HasSubstring(Val(store[resp.kind][i]).name, Val(resp.name))
        ELSE (IsNone(resp.skip) /\ IsNone(resp.limit))
                => resp.ids = Visible(resp.kind)

\* C14: a list answered 200 returns min(limit, max(0, M - offset))
\* features, M being the number of stored entities the filter selects,
\* with limit 100 and offset 0 when the request leaves them out; on an
\* empty table it is answered 200 with no feature.
C14_PageSize ==
    (resp.op = "list" /\ ~resp.fault) =>
        LET skip == IF IsNone(resp.skip) THEN 0 ELSE Val(resp.skip)
            limit == IF IsNone(resp.limit) THEN 100 ELSE Val(resp.limit)
            M == Cardinality(ListMatching(resp.kind, resp.name))
        IN /\ resp.status = HTTP_OK
           /\ Cardinality(resp.ids) = Lo(limit, Hi(0, M - skip))
           /\ resp.ids \subseteq ListMatching(resp.kind, resp.name)

\* limit=1 on a table of two entities returns one feature
C14_Witness ==
    /\ resp.op = "list" /\ resp.status = HTTP_OK
    /\ resp.limit = Some(1) /\ IsNone(resp.skip) /\ IsNone(resp.name)
    /\ Cardinality(Visible(resp.kind)) = 2
    /\ Cardinality(resp.ids) = 1

\* C18: get, list, points_within_polygon, intersecting_polygons and
\* polygons_containing_point change no stored row, whether they are
\* answered 200 or with an error.
ReadOps == {"get", "list", "within", "intersect", "contains"}

C18_ReadsChangeNothing ==
    resp.op \in ReadOps => ~resp.changed

\* a read answered with an error while both tables hold rows
C18_Witness ==
    /\ resp.op \in ReadOps /\ resp.status = HTTP_ERROR
    /\ Visible("point") # {} /\ Visible("polygon") # {}

\* C15: an update (with a body the schema accepts) or a delete whose lookup
\* finds no row for the id is answered 404 and changes no row of either
\* table.
C15_MissingIdIsNotFound ==
    [][(/\ resp'.op \in {"update", "delete"}
        /\ resp'.id \in Ids
        /\ sess' = sess
        /\ ~resp'.fault
        /\ IsNone(store[resp'.kind][resp'.id]))
            => (resp'.status = HTTP_NOT_FOUND /\ store' = store)]_vars

\* an update of an id that is not stored, answered 404 while another row
\* is stored
C15_Witness ==
    /\ resp.op = "update" /\ resp.status = HTTP_NOT_FOUND
    /\ IsNone(store[resp.kind][resp.id])
    /\ Visible(resp.kind) # {}

\* C16: the commit of an update whose body supplies no field, on a row
\* that is stored and with no store call failing, is answered 200 with the
\* entity, and leaves the row, and every other row, as it was.
C16_EmptyUpdateIsNoOp ==
    [][\A s \in Sessions :
          (/\ sess[s].op = "update" /\ sess'[s].op = "idle"
           /\ SuppliedFields(sess[s].partial) = {}
           /\ ~IsNone(store[sess[s].kind][sess[s].id])
           /\ ~resp'.fault)
              => /\ resp'.status = HTTP_OK
                 /\ resp'.ids = {sess[s].id}
                 /\ store' = store]_vars

\* an update without any field answered 200, the row being as created
C16_Witness ==
    /\ resp.op = "update" /\ resp.status = HTTP_OK
    /\ resp.supplied = {} /\ ~resp.changed
    /\ ~IsNone(store[resp.kind][resp.id])
    /\ Val(store[resp.kind][resp.id]).name = "n1"

\* C20: ids come from the table's sequence, which only moves forward: a
\* row that appears in a table has the id the sequence gave to its request
\* (the id this step draws, or one the batch drew when it flushed the row);
\* every id drawn is the next of the sequence, also when the request is
\* rolled back afterwards; the ids a batch has flushed are distinct, below
\* the sequence and not in the table; a deleted id never holds a row
\* again; an update leaves the ids of both tables as they are.
C20_IdsAssignedOnce ==
    [][/\ \A k \in Kinds : nextId'[k] >= nextId[k]
       /\ \A k \in Kinds : \A i \in Ids :
            (IsNone(store[k][i]) /\ ~IsNone(store'[k][i])) =>
                \/ (i = nextId[k] /\ nextId'[k] = i + 1)
                \/ \E s \in Sessions :
                      /\ sess[s].op = "batch" /\ sess[s].kind = k
                      /\ i \in TxnIds(sess[s].pending)
       /\ \A s \in Sessions :
            sess'[s].op = "batch" =>
                LET k == sess'[s].kind
                    old == IF sess[s].op = "batch"
                           THEN TxnIds(sess[s].pending) ELSE {}
                    new == TxnIds(sess'[s].pending)
                IN /\ \A i \in new \ old :
                        i = nextId[k] /\ nextId'[k] = i + 1
                   /\ Cardinality(new) = Len(sess'[s].pending)
                   /\ \A i \in new : i < nextId'[k] /\ IsNone(store'[k][i])
       /\ resp'.op \in {"create", "batch"} =>
            \A i \in resp'.ids : i < nextId'[resp'.kind]
       /\ \A d \in deleted' : IsNone(store'[d[1]][d[2]])
       /\ \A s \in Sessions :
            (sess[s].op = "update" /\ sess'[s].op = "idle") =>
                \A k \in Kinds : Visible(k)' = Visible(k)]_vars

\* an entity created after the delete of an earlier one, with a new id
C20_Witness ==
    /\ resp.op = "create" /\ resp.status = HTTP_CREATED
    /\ <<resp.kind, 1>> \in deleted
    /\ resp.id = 2 /\ ~IsNone(store[resp.kind][2])

\* C17: the commit of an update that is answered 200 leaves the row as the
\* committed row of that moment with every field the request supplies set
\* to the supplied value: of two concurrent updates that set the same
\* field the one that commits last decides its value, and the row is what
\* the two updates give in the order of their commits.
C17_LastWriteWins ==
    [][\A s \in DOMAIN sess :
          (/\ sess[s].op = "update" /\ sess'[s].op = "idle"
           /\ resp'.status = HTTP_OK)
              => LET k == sess[s].kind
                     i == sess[s].id
                     p == sess[s].partial
                 IN store'[k][i] =
                      Some(Assign(k, Val(store[k][i]), p,
                                  ValidateUpdate(k, p.coordinates).v))]_vars

\* C19: a create_batch answered 201 returns as many features as the
\* request has entities, the i-th feature with the name and the geometry
\* of the i-th entity, each under an id of its own, which is the id the
\* row is stored under.
C19_BatchFeaturesInOrder ==
    (resp.op = "batch" /\ resp.status = HTTP_CREATED) =>
        /\ Len(resp.features) = Len(resp.items)
        /\ \A i \in 1..Len(resp.items) :
              LET id == resp.features[i][1]
                  row == resp.features[i][2]
              IN /\ row.name = resp.items[i].name
                 /\ row.geom = Wkt(resp.kind,
                        ValidateCreate(resp.kind, resp.items[i].coordinates).v)
                 /\ store[resp.kind][id] = Some(row)
        /\ \A i, j \in 1..Len(resp.features) :
              resp.features[i][1] = resp.features[j][1] => i = j

\* a batch of two entities of different names answered 201
C19_Witness ==
    /\ resp.op = "batch" /\ resp.status = HTTP_CREATED
    /\ Len(resp.items) = 2
    /\ resp.items[1].name # resp.items[2].name
    /\ Len(resp.features) = 2

\* C22: every stored entity has a name that is not the empty string.
C22_NameNotEmpty ==
    \A k \in Kinds : \A i \in Ids :
        ~IsNone(store[k][i]) => Val(store[k][i]).name # ""

\* C25: a ring that a polygon validator accepts reaches the store closed
\* and with at least 4 pairs, on create and on update.
C25_StoredRingHasFourPairs ==
    (codec.op \in {"create", "update"} /\ codec.out.ok) =>
        /\ Len(codec.wkt) >= 4
        /\ codec.wkt[1] = codec.wkt[Len(codec.wkt)]

\* C24: a create, create_batch, update or delete in which a call to the
\* store has failed, the lookup included, is answered 500 after the handler
\* has called rollback on its session.
C24_RollbackBeforeError ==
    (resp.op \in {"create", "batch", "update", "delete"} /\ resp.fault)
        => (resp.rollback /\ resp.status = HTTP_ERROR)

\* C23: the service offers points_within_radius: some route carries the
\* operation out, and a GET of the points router for it is not given to a
\* handler of another operation.
C23_RadiusQueryOffered ==
    /\ "points_within_radius" \in Offered
    /\ (resp.op = "route" /\ resp.router = "points" /\ resp.method = "GET"
            /\ resp.path = <<"radius">>)
          => resp.operation = "points_within_radius"

\* C27: in the polygons router a GET of /contains is given to
\* find_polygons_containing_point and a GET of /intersect to
\* find_intersecting_polygons: the route /{polygon_id}, declared before
\* them, does not take the request.
C27_LiteralRoutesReachable ==
    (resp.op = "route" /\ resp.router = "polygons" /\ resp.method = "GET") =>
        /\ resp.path = <<"contains">> =>
                resp.handler = "find_polygons_containing_point"
        /\ resp.path = <<"intersect">> =>
                resp.handler = "find_intersecting_polygons"

\* C21: every stored entity has updated_at >= created_at; no operation
\* changes the created_at of a stored entity; no operation, an update that
\* changes a field included, sets updated_at to a time earlier than its
\* previous value.
C21_TimestampsOrdered ==
    [][\A k \in Kinds : \A i \in Ids :
          ~IsNone(store'[k][i]) =>
              /\ ~IsNone(stamp'[k][i])
              /\ Val(stamp'[k][i]).updated_at >= Val(stamp'[k][i]).created_at
              /\ ~IsNone(store[k][i]) =>
                    /\ Val(stamp'[k][i]).created_at = Val(stamp[k][i]).created_at
                    /\ Val(stamp'[k][i]).updated_at >= Val(stamp[k][i]).updated_at
      ]_vars

\* C26: the answer of find_points_within_polygon is the set of points within
\* the polygon's geometry in one committed state of the store between its
\* lookup and its response, whatever other requests commit in between.
C26_ConsistentView ==
    [][\A s \in DOMAIN sess :
          (sess[s].op = "within" /\ sess'[s].op = "idle"
                /\ resp'.status = HTTP_OK)
              => resp'.ids \in views[s]]_vars

====
